---- MODULE Spec2Model ----
(***************************************************************************)
(* A model of src/src/_trial/agent_run_skill.ts: the skill-document parser *)
(* (parseFrontmatter), the command extractor (extractCommands), the        *)
(* catalog loader (loadSkills), the intent resolver (callOpenAI) and the   *)
(* rule-based fallback matcher (mockAgentResponse).                        *)
(*                                                                         *)
(* JavaScript strings are TLA+ strings; indices are 1-based here.  A TLA+  *)
(* string literal cannot hold the back-quote character U+0060, so the      *)
(* character "#" stands for it throughout (see BT).                        *)
(***************************************************************************)
EXTENDS Integers, Sequences, FiniteSets, TLC

VARIABLES
    pc,        \* position of the running operation
    fs,        \* the file system under SKILLS_DIR, as the loader sees it
    ci,        \* loadSkills: index of the category being enumerated
    fi,        \* loadSkills: index of the file being loaded in that category
    files,     \* loadSkills: skillFiles of the current category
    skills,    \* the catalog (Skill[])
    log,       \* paths reported through console.error / console.log
    content,   \* parseFrontmatter: the raw document
    parsed,    \* parseFrontmatter: <<>> or <<[metadata, body]>>
    prompt,    \* the user prompt
    http,      \* callOpenAI: the outcome of the external call
    fetches,   \* callOpenAI: number of fetch() calls made
    response,  \* <<>> or <<r>>, r the AgentResponse returned to the caller
    raised     \* "" or the error that reached the caller

vars == <<pc, fs, ci, fi, files, skills, log, content, parsed, prompt, http,
          fetches, response, raised>>

-----------------------------------------------------------------------------
(* String primitives of the JavaScript runtime.                            *)

BT == "#"

\* String.prototype.charAt: "" outside the string.
At(s, i) == IF i >= 1 /\ i <= Len(s) THEN SubSeq(s, i, i) ELSE ""

\* String.prototype.slice(i): "" when i is past the end.
From(s, i) == IF i <= Len(s) THEN SubSeq(s, i, Len(s)) ELSE ""

StartsWith(s, p) == Len(p) <= Len(s) /\ SubSeq(s, 1, Len(p)) = p

EndsWith(s, p) == Len(p) <= Len(s) /\ SubSeq(s, Len(s) - Len(p) + 1, Len(s)) = p

OccursAt(s, sub, i) == i >= 1 /\ i + Len(sub) - 1 <= Len(s) /\ SubSeq(s, i, i + Len(sub) - 1) = sub

Includes(s, sub) == \E i \in 1..(Len(s) - Len(sub) + 1) : OccursAt(s, sub, i)

\* String.prototype.indexOf, 1-based; 0 when sub does not occur at or after from.
IndexOfFrom(s, sub, from) ==
    LET hits == {i \in from..(Len(s) - Len(sub) + 1) : OccursAt(s, sub, i)}
    IN  IF hits = {} THEN 0 ELSE CHOOSE i \in hits : \A j \in hits : i <= j

IndexOf(s, sub) == IndexOfFrom(s, sub, 1)

UpperLetters == "ABCDEFGHIJKLMNOPQRSTUVWXYZ"

LowerLetters == "abcdefghijklmnopqrstuvwxyz"

LowerChar(c) ==
    LET k == IndexOf(UpperLetters, c)
    IN  IF k = 0 THEN c ELSE At(LowerLetters, k)

RECURSIVE ToLowerCase(_)
ToLowerCase(s) ==
    IF s = "" THEN "" ELSE LowerChar(At(s, 1)) \o ToLowerCase(From(s, 2))

IsSpace(c) == c \in {" ", "\n", "\t", "\r"}

IsQuote(c) == c \in {"\"", "'"}

RECURSIVE TrimStart(_)
TrimStart(s) ==
    IF s # "" /\ IsSpace(At(s, 1)) THEN TrimStart(From(s, 2)) ELSE s

RECURSIVE TrimEnd(_)
TrimEnd(s) ==
    IF s # "" /\ IsSpace(At(s, Len(s))) THEN TrimEnd(SubSeq(s, 1, Len(s) - 1)) ELSE s

Trim(s) == TrimEnd(TrimStart(s))

\* String.prototype.split('\n')
RECURSIVE SplitLines(_)
SplitLines(s) ==
    LET k == IndexOf(s, "\n")
    IN  IF k = 0 THEN <<s>>
        ELSE <<SubSeq(s, 1, k - 1)>> \o SplitLines(From(s, k + 1))

-----------------------------------------------------------------------------
(* mockAgentResponse: the rule-based fallback matcher.                     *)

\* Length of the run of characters satisfying \s starting at index i.
RECURSIVE SpaceRun(_, _)
SpaceRun(s, i) ==
    IF i <= Len(s) /\ IsSpace(At(s, i)) THEN 1 + SpaceRun(s, i + 1) ELSE 0

\* Length of the run of characters satisfying [^"'] starting at index i.
RECURSIVE NonQuoteRun(_, _)
NonQuoteRun(s, i) ==
    IF i <= Len(s) /\ ~IsQuote(At(s, i)) THEN 1 + NonQuoteRun(s, i + 1) ELSE 0

\* /\s+["']?([^"']+)["']?/ anchored at index j with \s+ consuming w
\* characters, w tried from the longest run downwards (greedy with
\* backtracking); the optional quote is tried taken first, then skipped.
\* The value is capture group 1, or "" when nothing matches.
RECURSIVE SearchTail(_, _, _)
SearchTail(s, j, w) ==
    IF w < 1 THEN ""
    ELSE LET p == j + w
         IN  IF p <= Len(s) /\ IsQuote(At(s, p)) /\ NonQuoteRun(s, p + 1) > 0
             THEN SubSeq(s, p + 1, p + NonQuoteRun(s, p + 1))
             ELSE IF NonQuoteRun(s, p) > 0
             THEN SubSeq(s, p, p + NonQuoteRun(s, p) - 1)
             ELSE SearchTail(s, j, w - 1)

\* promptLower.match(/search\s+["']?([^"']+)["']?/)?.[1], "" for no match:
\* the leftmost occurrence of "search" from which the rest matches.
RECURSIVE SearchQueryFrom(_, _)
SearchQueryFrom(s, from) ==
    LET i == IndexOfFrom(s, "search", from)
    IN  IF i = 0 THEN ""
        ELSE LET g == SearchTail(s, i + Len("search"), SpaceRun(s, i + Len("search")))
             IN  IF g # "" THEN g ELSE SearchQueryFrom(s, i + 1)

SearchQuery(promptLower) ==
    LET g == SearchQueryFrom(promptLower, 1)
    IN  IF g # "" THEN g ELSE "query"

CreateCommand == "obsidian-cli create \"Folder/New note\" --open"

PrintDefaultCommand == "obsidian-cli print-default --path-only"

SearchCommand(q) == "obsidian-cli search \"" \o q \o "\""

NoCommand == "echo \"No command found\""

TriggerHit(promptLower) ==
    \/ Includes(promptLower, "obsidian")
    \/ Includes(promptLower, "note")
    \/ Includes(promptLower, "vault")

\* ObsidianCommand with the search test ahead of the create/new test.
ObsidianCommandSearchFirst(promptLower) ==
    IF Includes(promptLower, "search")
    THEN SearchCommand(SearchQuery(promptLower))
    ELSE IF Includes(promptLower, "create") \/ Includes(promptLower, "new")
    THEN CreateCommand
    ELSE IF Includes(promptLower, "default") \/ Includes(promptLower, "path")
    THEN PrintDefaultCommand
    ELSE SearchCommand("query")

\* The if / else-if chain of lines 185-195.
ObsidianCommand(promptLower) ==
    IF Includes(promptLower, "create") \/ Includes(promptLower, "new")
    THEN CreateCommand
    ELSE IF Includes(promptLower, "search")
    THEN SearchCommand(SearchQuery(promptLower))
    ELSE IF Includes(promptLower, "default") \/ Includes(promptLower, "path")
    THEN PrintDefaultCommand
    ELSE SearchCommand("query")

ObsidianReasoning(command) ==
    "Selected 'obsidian' skill because user mentioned Obsidian/vault/notes. Command '"
        \o command \o "' best matches the request."

DefaultReasoning == "Default fallback: no specific skill matched"

\* Indices of the skills at which the loop of line 180 would return.
Selected(promptLower, catalog) ==
    {i \in 1..Len(catalog) :
        TriggerHit(promptLower) /\ catalog[i].metadata["name"] = "obsidian"}

\* DefaultResponse with one test for both fields: the sentinel name and the
\* sentinel command together, when the first skill lists no command.
DefaultResponseCoupled(catalog) ==
    IF Len(catalog) > 0 /\ Len(catalog[1].commands) > 0
    THEN [skillName |-> catalog[1].metadata["name"],
          command   |-> catalog[1].commands[1],
          reasoning |-> DefaultReasoning]
    ELSE [skillName |-> "unknown", command |-> NoCommand,
          reasoning |-> DefaultReasoning]

DefaultResponse(catalog) ==
    [skillName |-> IF Len(catalog) > 0 /\ catalog[1].metadata["name"] # ""
                   THEN catalog[1].metadata["name"] ELSE "unknown",
     command   |-> IF Len(catalog) > 0 /\ Len(catalog[1].commands) > 0
                      /\ catalog[1].commands[1] # ""
                   THEN catalog[1].commands[1] ELSE NoCommand,
     reasoning |-> DefaultReasoning]

mockAgentResponse(userPrompt, catalog) ==
    LET promptLower == ToLowerCase(userPrompt)
        sel == Selected(promptLower, catalog)
    IN  IF sel # {}
        THEN LET skill == catalog[CHOOSE i \in sel : \A j \in sel : i <= j]
                 command == ObsidianCommand(promptLower)
             IN  [skillName |-> skill.metadata["name"],
                  command   |-> command,
                  reasoning |-> ObsidianReasoning(command)]
        ELSE DefaultResponse(catalog)

-----------------------------------------------------------------------------
(* JSON.parse, for the texts the model feeds it: null, a string without    *)
(* escapes, and an object whose members are such values, with white space  *)
(* allowed between tokens.  A parse yields [ok, val, next]; a JavaScript   *)
(* value is [kind |-> "null"], [kind |-> "string", str |-> s] or           *)
(* [kind |-> "object", fields |-> f], f a function on the member names.    *)

Obj(f) == [kind |-> "object", fields |-> f]

JsonFail == [ok |-> FALSE, val |-> [kind |-> "null"], next |-> 0]

SkipWs(s, i) == i + SpaceRun(s, i)

JsonString(s, i) ==
    LET j == IndexOfFrom(s, "\"", i + 1)
    IN  IF At(s, i) # "\"" \/ j = 0 \/ Includes(SubSeq(s, i + 1, j - 1), "\\")
           \/ Includes(SubSeq(s, i + 1, j - 1), "\n")
        THEN JsonFail
        ELSE [ok |-> TRUE, val |-> [kind |-> "string", str |-> SubSeq(s, i + 1, j - 1)],
              next |-> j + 1]

Put(f, key, val) == [k \in DOMAIN f \cup {key} |-> IF k = key THEN val ELSE f[k]]

RECURSIVE JsonValue(_, _)
RECURSIVE JsonMembers(_, _, _)
\* The members of an object from index i on, acc the members read so far.
JsonMembers(s, i, acc) ==
    LET k == JsonString(s, SkipWs(s, i))
        c == SkipWs(s, k.next)
        v == JsonValue(s, c + 1)
        e == SkipWs(s, v.next)
    IN  IF ~k.ok \/ At(s, c) # ":" \/ ~v.ok THEN JsonFail
        ELSE IF At(s, e) = "}"
        THEN [ok |-> TRUE, val |-> Obj(Put(acc, k.val.str, v.val)), next |-> e + 1]
        ELSE IF At(s, e) = ","
        THEN JsonMembers(s, e + 1, Put(acc, k.val.str, v.val))
        ELSE JsonFail

JsonValue(s, i) ==
    LET p == SkipWs(s, i)
    IN  IF OccursAt(s, "null", p)
        THEN [ok |-> TRUE, val |-> [kind |-> "null"], next |-> p + Len("null")]
        ELSE IF At(s, p) = "\"" THEN JsonString(s, p)
        ELSE IF At(s, p) = "{"
        THEN IF At(s, SkipWs(s, p + 1)) = "}"
             THEN [ok |-> TRUE, val |-> Obj(<<>>), next |-> SkipWs(s, p + 1) + 1]
             ELSE JsonMembers(s, p + 1, <<>>)
        ELSE JsonFail

\* JSON.parse(text): [ok, val]; ok = FALSE is the SyntaxError.
JSONParse(text) ==
    LET v == JsonValue(text, 1)
    IN  IF v.ok /\ SkipWs(text, v.next) = Len(text) + 1
        THEN [ok |-> TRUE, val |-> v.val]
        ELSE [ok |-> FALSE, val |-> [kind |-> "null"]]

-----------------------------------------------------------------------------
(* parseFrontmatter: the document parser.                                  *)

Marker == "---\n"

EndMarker == "\n---\n"

\* content.match(/^---\n([\s\S]*?)\n---\n([\s\S]*)$/): the index of the
\* closing "\n---\n" nearest to the opening marker, 0 when there is no match.
FrontmatterEnd(doc) ==
    IF StartsWith(doc, Marker) THEN IndexOfFrom(doc, EndMarker, Len(Marker) + 1) ELSE 0

\* value.replace(/^["']|["']$/g, '')
StripQuotes(value) ==
    LET first == IF IsQuote(At(value, 1)) THEN 2 ELSE 1
        last  == IF Len(value) >= 2 /\ IsQuote(At(value, Len(value)))
                 THEN Len(value) - 1 ELSE Len(value)
    IN  SubSeq(value, first, last)

EmptyMetadata ==
    [k \in {"name", "description", "homepage", "metadata"} |->
        IF k = "metadata" THEN Obj(<<>>) ELSE ""]

\* The callback of frontmatterStr.split('\n').forEach, lines 44-61.
ApplyLine(metadata, line) ==
    LET colon == IndexOf(line, ":")
        key   == Trim(SubSeq(line, 1, colon - 1))
        value == Trim(From(line, colon + 1))
    IN  IF colon > 1 /\ key # "" /\ value # ""
        THEN IF key = "metadata"
             THEN IF JSONParse(value).ok
                  THEN Put(metadata, "metadata", JSONParse(value).val)
                  ELSE metadata
             ELSE Put(metadata, key, StripQuotes(value))
        ELSE metadata

RECURSIVE ApplyLines(_, _)
ApplyLines(metadata, lines) ==
    IF lines = <<>> THEN metadata
    ELSE ApplyLines(ApplyLine(metadata, Head(lines)), Tail(lines))

\* [ok, metadata, body]; ok = FALSE is Error('Invalid frontmatter format').
parseFrontmatter(doc) ==
    LET k == FrontmatterEnd(doc)
        frontmatterStr == SubSeq(doc, Len(Marker) + 1, k - 1)
    IN  IF k = 0 \/ frontmatterStr = ""
        THEN [ok |-> FALSE, metadata |-> EmptyMetadata, body |-> ""]
        ELSE [ok |-> TRUE,
              metadata |-> ApplyLines(EmptyMetadata, SplitLines(frontmatterStr)),
              body |-> From(doc, k + Len(EndMarker))]

-----------------------------------------------------------------------------
(* extractCommands: the command extractor.                                 *)

\* IsCommand without the allow-list: every non-empty span is kept.
IsCommandAnySpan(command) == command # ""

IsCommand(command) ==
    StartsWith(command, "obsidian-cli") \/ StartsWith(command, "obsidian://")

\* The exec loop of /BT([^BT]+)BT/g over body from index from (lastIndex).
RECURSIVE ExtractFrom(_, _)
ExtractFrom(body, from) ==
    LET i == IndexOfFrom(body, BT, from)
        j == IndexOfFrom(body, BT, i + 1)
        command == Trim(SubSeq(body, i + 1, j - 1))
    IN  IF i = 0 \/ j = 0 THEN <<>>
        ELSE IF j = i + 1 THEN ExtractFrom(body, i + 1)
        ELSE IF IsCommand(command)
        THEN <<command>> \o ExtractFrom(body, j + 1)
        ELSE ExtractFrom(body, j + 1)

extractCommands(body) == ExtractFrom(body, 1)

-----------------------------------------------------------------------------
(* loadSkills: the catalog loader.                                         *)
(*                                                                         *)
(* fs is [exists, entries]: whether SKILLS_DIR exists, and what            *)
(* readdirSync lists in it, in listing order.  A root entry is             *)
(* [name, kind, entries], kind "dir" or "file"; an entry of a category is  *)
(* [name, kind, content].                                                  *)

SKILLS_DIR == "src/_trial/skills"

Join(dir, name) == dir \o "/" \o name

IsSkillFile(f) == EndsWith(f.name, ".md")

\* The Skill pushed at lines 107-112 for a document that parses.
MakeSkill(path, metadata, body) ==
    [path |-> path, metadata |-> metadata, content |-> body,
     commands |-> extractCommands(body)]

SkillOf(path, doc) ==
    MakeSkill(path, parseFrontmatter(doc).metadata, parseFrontmatter(doc).body)

\* readFileSync and parseFrontmatter both succeed on the entry.
Loads(f) == f.kind = "file" /\ parseFrontmatter(f.content).ok

LoadIdle == /\ ci = 0 /\ fi = 0 /\ files = <<>>

\* existsSync(SKILLS_DIR) is false: log and return the empty catalog.
LoadMissingRoot ==
    /\ pc = "load"
    /\ ~fs.exists
    /\ log' = Append(log, SKILLS_DIR)
    /\ pc' = "loaded"
    /\ UNCHANGED <<fs, ci, fi, files, skills, content, parsed, prompt, http,
                   fetches, response, raised>>

\* const categories = readdirSync(SKILLS_DIR)
LoadListRoot ==
    /\ pc = "load"
    /\ fs.exists
    /\ ci' = 1
    /\ pc' = "category"
    /\ UNCHANGED <<fs, fi, files, skills, log, content, parsed, prompt, http,
                   fetches, response, raised>>

\* readdirSync(categoryPath).filter(f => f.endsWith('.md')) on a directory
LoadListCategory ==
    /\ pc = "category"
    /\ ci <= Len(fs.entries)
    /\ fs.entries[ci].kind = "dir"
    /\ files' = SelectSeq(fs.entries[ci].entries, IsSkillFile)
    /\ fi' = 1
    /\ pc' = "file"
    /\ UNCHANGED <<fs, ci, skills, log, content, parsed, prompt, http,
                   fetches, response, raised>>

\* readdirSync(categoryPath) on an entry that is no directory: the call is
\* outside the try block, the error leaves loadSkills.
LoadListCategoryThrows ==
    /\ pc = "category"
    /\ ci <= Len(fs.entries)
    /\ fs.entries[ci].kind # "dir"
    /\ raised' = "ENOTDIR: not a directory, scandir '"
                    \o Join(SKILLS_DIR, fs.entries[ci].name) \o "'"
    /\ pc' = "failed"
    /\ UNCHANGED <<fs, ci, fi, files, skills, log, content, parsed, prompt,
                   http, fetches, response>>

\* One iteration of the loop of line 99: the try block and its catch.
LoadSkillFile ==
    /\ pc = "file"
    /\ fi <= Len(files)
    /\ LET skillPath == Join(Join(SKILLS_DIR, fs.entries[ci].name), files[fi].name)
       IN  IF Loads(files[fi])
           THEN /\ skills' = Append(skills, SkillOf(skillPath, files[fi].content))
                /\ log' = log
           ELSE /\ skills' = skills
                /\ log' = Append(log, skillPath)
    /\ fi' = fi + 1
    /\ UNCHANGED <<pc, fs, ci, files, content, parsed, prompt, http, fetches,
                   response, raised>>

\* The files of the category are exhausted: on to the next category.
LoadCategoryDone ==
    /\ pc = "file"
    /\ fi > Len(files)
    /\ ci' = ci + 1
    /\ pc' = "category"
    /\ UNCHANGED <<fs, fi, files, skills, log, content, parsed, prompt, http,
                   fetches, response, raised>>

\* return skills
LoadReturn ==
    /\ pc = "category"
    /\ ci > Len(fs.entries)
    /\ pc' = "loaded"
    /\ UNCHANGED <<fs, ci, fi, files, skills, log, content, parsed, prompt,
                   http, fetches, response, raised>>

-----------------------------------------------------------------------------
(* callOpenAI: the intent resolver.                                        *)
(*                                                                         *)
(* http is the outcome of the external call: reached (fetch resolved), ok  *)
(* (response.ok), readable (the body can be read: response.text() or       *)
(* response.json() resolves), and data, the value response.json() gives:   *)
(* [hasChoices, choices], choices a sequence of [message], message <<>> or *)
(* <<[content]>>, content <<>> or <<text>>.                                *)

NoHttp ==
    [reached |-> FALSE, ok |-> FALSE, readable |-> FALSE,
     data |-> [hasChoices |-> FALSE, choices |-> <<>>]]

\* data.choices[0]?.message?.content || '{}'
ReplyContent(data) ==
    IF data.choices # <<>> /\ data.choices[1].message # <<>>
       /\ data.choices[1].message[1].content # <<>>
       /\ data.choices[1].message[1].content[1] # ""
    THEN data.choices[1].message[1].content[1]
    ELSE "{}"

\* ErrorStatusResult that skips the matcher and answers the default.
ErrorStatusResultDefault(userPrompt, catalog) == Obj(DefaultResponse(catalog))

\* The value of line 164: the fallback on a non-success status.
ErrorStatusResult(userPrompt, catalog) == Obj(mockAgentResponse(userPrompt, catalog))

\* Lines 170-174: JSON.parse(content) as AgentResponse, or the fallback.
ReplyResult(replyText, userPrompt, catalog) ==
    IF JSONParse(replyText).ok THEN JSONParse(replyText).val
    ELSE Obj(mockAgentResponse(userPrompt, catalog))

\* await fetch(...) rejects: the capability is unreachable.
FetchRejects ==
    /\ pc = "resolve"
    /\ fetches' = fetches + 1
    /\ http' = NoHttp
    /\ raised' = "TypeError: fetch failed"
    /\ pc' = "failed"
    /\ UNCHANGED <<fs, ci, fi, files, skills, log, content, parsed, prompt, response>>

\* await fetch(...) resolves with a response h.
FetchResolves(h) ==
    /\ pc = "resolve"
    /\ h.reached
    /\ fetches' = fetches + 1
    /\ http' = h
    /\ pc' = IF h.ok THEN "json" ELSE "text"
    /\ UNCHANGED <<fs, ci, fi, files, skills, log, content, parsed, prompt,
                   response, raised>>

\* Lines 160-165: await response.text(), log, return the fallback.
ReadErrorText ==
    /\ pc = "text"
    /\ IF http.readable
       THEN /\ log' = Append(log, "OpenAI API error (using mock response):")
            /\ response' = <<ErrorStatusResult(prompt, skills)>>
            /\ pc' = "done"
            /\ raised' = raised
       ELSE /\ raised' = "TypeError: terminated"
            /\ pc' = "failed"
            /\ UNCHANGED <<log, response>>
    /\ UNCHANGED <<fs, ci, fi, files, skills, content, parsed, prompt, http, fetches>>

\* Lines 167-174: await response.json(), pick the content, parse it.
ReadJson ==
    /\ pc = "json"
    /\ IF ~http.readable
       THEN /\ raised' = "SyntaxError: Unexpected token in JSON"
            /\ pc' = "failed"
            /\ response' = response
       ELSE IF ~http.data.hasChoices
       THEN /\ raised' = "TypeError: Cannot read properties of undefined (reading '0')"
            /\ pc' = "failed"
            /\ response' = response
       ELSE /\ response' = <<ReplyResult(ReplyContent(http.data), prompt, skills)>>
            /\ pc' = "done"
            /\ raised' = raised
    /\ UNCHANGED <<fs, ci, fi, files, skills, log, content, parsed, prompt,
                   http, fetches>>

-----------------------------------------------------------------------------
(* The operations run on their own.                                        *)

\* mockAgentResponse(prompt, skills), called standalone.
FallbackMatch ==
    /\ pc = "fallback"
    /\ response' = <<Obj(mockAgentResponse(prompt, skills))>>
    /\ pc' = "done"
    /\ UNCHANGED <<fs, ci, fi, files, skills, log, content, parsed, prompt,
                   http, fetches, raised>>

\* parseFrontmatter(content), called standalone.
ParseDocument ==
    /\ pc = "parse"
    /\ IF parseFrontmatter(content).ok
       THEN /\ parsed' = <<[metadata |-> parseFrontmatter(content).metadata,
                            body |-> parseFrontmatter(content).body]>>
            /\ pc' = "done"
            /\ raised' = raised
       ELSE /\ raised' = "Invalid frontmatter format"
            /\ pc' = "failed"
            /\ parsed' = parsed
    /\ UNCHANGED <<fs, ci, fi, files, skills, log, content, prompt, http,
                   fetches, response>>

-----------------------------------------------------------------------------
(* Inputs.                                                                 *)

MaxPromptChunks == 3

MaxBodyChunks == 4

MaxFrontLines == 2

MaxCategories == 2

\* The texts made of at most n pieces.
RECURSIVE Texts(_, _)
Texts(pieces, n) ==
    IF n = 0 THEN {""}
    ELSE LET shorter == Texts(pieces, n - 1)
         IN  shorter \cup {t \o c : t \in shorter, c \in pieces}

\* The fixed prompts of runDemo.
testPrompts ==
    <<"Search for notes about \"meeting\" in my Obsidian vault",
      "Create a new note called \"Daily Log\" in Obsidian",
      "What is the default Obsidian vault path?",
      "Search for \"project\" in Obsidian">>

PromptChunks ==
    {"search ", "create ", "new ", "default ", "path", "note", " Obsidian",
     "\"Project\""}

Prompts ==
    {testPrompts[i] : i \in DOMAIN testPrompts} \cup Texts(PromptChunks, MaxPromptChunks)

ResolvePrompts ==
    {testPrompts[i] : i \in DOMAIN testPrompts}
        \cup {"", "hello", "search \"Project\" note", "path of the vault"}

ObsidianDoc ==
    "---\nname: obsidian\ndescription: Work with Obsidian vaults\n---\n"
        \o "Run #obsidian-cli search \"query\"# or #echo hi#, then #obsidian-cli print-default#\n"

GitDoc ==
    "---\nname: git\ndescription: \"Version control\"\nauthor: bob\n---\nRun #git status#\n"

UnnamedDoc ==
    "---\ndescription: Open a vault\nmetadata: {\"emoji\":\"x\"}\n---\nOpen #obsidian://open?vault=x#\n"

BrokenDoc == "name: obsidian\nRun #obsidian-cli search \"query\"#\n"

\* The skills loadSkills makes of the documents above: 1 obsidian, 2 git,
\* 3 the document without a name.
LoadedSkills ==
    <<SkillOf(Join(Join(SKILLS_DIR, "notes"), "obsidian.md"), ObsidianDoc),
      SkillOf(Join(Join(SKILLS_DIR, "tools"), "git.md"), GitDoc),
      SkillOf(Join(Join(SKILLS_DIR, "misc"), "unnamed.md"), UnnamedDoc)>>

\* Catalogs loadSkills can produce from them.
Catalogs ==
    {[i \in DOMAIN ix |-> LoadedSkills[ix[i]]] :
        ix \in {<<>>, <<1>>, <<2>>, <<3>>, <<2, 1>>, <<3, 1>>, <<1, 2>>}}

FrontLines ==
    {"name: obsidian", "description: \"Notes'", "homepage: 'https://obsidian.md'",
     "metadata: {\"emoji\": \"x\"}", "metadata: {oops", "author: bob",
     "no colon here", "", ": orphan", "name:"}

RECURSIVE FrontBlocks(_)
FrontBlocks(n) ==
    IF n = 0 THEN {""}
    ELSE LET shorter == FrontBlocks(n - 1)
         IN  shorter \cup {IF b = "" THEN l ELSE b \o "\n" \o l :
                              b \in shorter, l \in FrontLines}

Documents ==
    {Marker \o b \o EndMarker \o body :
        b \in FrontBlocks(MaxFrontLines), body \in {"", "Run #obsidian-cli daily#\n"}}
    \cup {"", BrokenDoc, "---\nname: obsidian\n", "---\nname: obsidian\n---"}

BodyChunks ==
    {BT, " ", "obsidian-cli a", "obsidian://b", "echo hi",
     BT \o "obsidian-cli a" \o BT, BT \o " echo hi " \o BT}

Bodies == Texts(BodyChunks, MaxBodyChunks)

BodyFront == "---\nname: obsidian\n---\n"

File(name, doc) == [name |-> name, kind |-> "file", content |-> doc]

Listings ==
    { <<>>,
      <<File("obsidian.md", ObsidianDoc)>>,
      <<File("broken.md", BrokenDoc), File("obsidian.md", ObsidianDoc)>>,
      <<File("notes.txt", ObsidianDoc), File("git.md", GitDoc)>>,
      <<[name |-> "archive.md", kind |-> "dir", content |-> ""],
        File("unnamed.md", UnnamedDoc)>> }

\* What a root entry can be: a directory with one of the listings, or a
\* plain file.
EntryShapes ==
    {[kind |-> "dir", entries |-> l] : l \in Listings}
        \cup {[kind |-> "file", entries |-> <<>>]}

EntryNames == <<"notes", "tools", "misc", "extra", "more">>

Root(shapes) ==
    [exists |-> TRUE,
     entries |-> [i \in DOMAIN shapes |->
                    [name |-> IF shapes[i].kind = "dir" THEN EntryNames[i]
                              ELSE EntryNames[i] \o ".txt",
                     kind |-> shapes[i].kind,
                     entries |-> shapes[i].entries]]]

MissingRoot == [exists |-> FALSE, entries |-> <<>>]

FileSystems ==
    {MissingRoot}
    \cup {Root(shapes) : shapes \in UNION {[1..n -> EntryShapes] : n \in 0..MaxCategories}}
    \cup {Root(<<[kind |-> "dir", entries |-> <<File("skill.md", BodyFront \o body)>>]>>) :
            body \in Bodies}

Message(text) == <<[message |-> <<[content |-> <<text>>]>>]>>

FullReply ==
    "{\"skillName\": \"obsidian\", \"command\": \"obsidian-cli print-default\", "
        \o "\"reasoning\": \"asked for the path\"}"

ReplyData ==
    {[hasChoices |-> FALSE, choices |-> <<>>],
     [hasChoices |-> TRUE, choices |-> <<>>],
     [hasChoices |-> TRUE, choices |-> <<[message |-> <<>>]>>],
     [hasChoices |-> TRUE, choices |-> <<[message |-> <<[content |-> <<>>]>>]>>]}
    \cup {[hasChoices |-> TRUE, choices |-> Message(text)] :
            text \in {FullReply, "{}", "{\"skillName\": \"obsidian\"}", "null", "",
                      "I would pick the obsidian skill", "\"obsidian\""}}

HttpResponses ==
    {[reached |-> TRUE, ok |-> FALSE, readable |-> r, data |-> NoHttp.data] :
        r \in BOOLEAN}
    \cup {[reached |-> TRUE, ok |-> TRUE, readable |-> FALSE, data |-> NoHttp.data]}
    \cup {[reached |-> TRUE, ok |-> TRUE, readable |-> TRUE, data |-> d] : d \in ReplyData}

-----------------------------------------------------------------------------
(* Specifications.                                                         *)

\* loadSkills() on a file system.
InitLoad ==
    /\ pc = "load"
    /\ fs \in FileSystems
    /\ LoadIdle
    /\ skills = <<>>
    /\ log = <<>>
    /\ content = ""
    /\ parsed = <<>>
    /\ prompt = ""
    /\ http = NoHttp
    /\ fetches = 0
    /\ response = <<>>
    /\ raised = ""

NextLoad ==
    \/ LoadMissingRoot
    \/ LoadListRoot
    \/ LoadListCategory
    \/ LoadListCategoryThrows
    \/ LoadSkillFile
    \/ LoadCategoryDone
    \/ LoadReturn

SpecLoad == InitLoad /\ [][NextLoad]_vars

\* parseFrontmatter(content) on a document.
InitParse ==
    /\ pc = "parse"
    /\ content \in Documents
    /\ fs = MissingRoot
    /\ LoadIdle
    /\ skills = <<>>
    /\ log = <<>>
    /\ parsed = <<>>
    /\ prompt = ""
    /\ http = NoHttp
    /\ fetches = 0
    /\ response = <<>>
    /\ raised = ""

SpecParse == InitParse /\ [][ParseDocument]_vars

\* mockAgentResponse(prompt, skills) on a prompt and a loaded catalog.
InitFallback ==
    /\ pc = "fallback"
    /\ prompt \in Prompts
    /\ skills \in Catalogs
    /\ fs = MissingRoot
    /\ LoadIdle
    /\ log = <<>>
    /\ content = ""
    /\ parsed = <<>>
    /\ http = NoHttp
    /\ fetches = 0
    /\ response = <<>>
    /\ raised = ""

SpecFallback == InitFallback /\ [][FallbackMatch]_vars

\* callOpenAI(prompt, skills) on a prompt and a loaded catalog.
InitResolve ==
    /\ pc = "resolve"
    /\ prompt \in ResolvePrompts
    /\ skills \in Catalogs
    /\ fs = MissingRoot
    /\ LoadIdle
    /\ log = <<>>
    /\ content = ""
    /\ parsed = <<>>
    /\ http = NoHttp
    /\ fetches = 0
    /\ response = <<>>
    /\ raised = ""

NextResolve ==
    \/ FetchRejects
    \/ \E h \in HttpResponses : FetchResolves(h)
    \/ ReadErrorText
    \/ ReadJson

SpecResolve == InitResolve /\ [][NextResolve]_vars

-----------------------------------------------------------------------------
(* Properties.                                                             *)

\* The lower-cased prompt has the word.
Has(promptLower, word) == Includes(promptLower, word)

\* The fallback matcher selects the obsidian skill for the prompt.
ObsidianSelected(promptLower) ==
    /\ Has(promptLower, "obsidian") \/ Has(promptLower, "note") \/ Has(promptLower, "vault")
    /\ \E i \in DOMAIN skills : skills[i].metadata["name"] = "obsidian"

SearchIntent(promptLower) ==
    /\ ObsidianSelected(promptLower)
    /\ ~Has(promptLower, "create")
    /\ ~Has(promptLower, "new")
    /\ Has(promptLower, "search")

Fallback == <<Obj(mockAgentResponse(prompt, skills))>>

ResolutionFields == {"skillName", "command", "reasoning"}

IsResolution(v) == v.kind = "object" /\ ResolutionFields \subseteq DOMAIN v.fields

\* C1: resolve never fails outright: whatever the outcome of the external
\* call, callOpenAI does not raise, and when the capability is unreachable
\* or the response body unreadable, what it returns is the fallback
\* matcher's Resolution.
C1_ResolveNeverRaises ==
    /\ raised = ""
    /\ pc # "failed"
    /\ (pc = "done" /\ (~http.reached \/ ~http.readable)) => response = Fallback

C3_UnusableReplyFallsBack ==
    pc = "done" =>
        /\ IsResolution(response[1])
        /\ (http.ok /\ ~(/\ JSONParse(ReplyContent(http.data)).ok
                         /\ IsResolution(JSONParse(ReplyContent(http.data)).val)))
              => response = Fallback

FirstQuoteFrom(s, from) ==
    LET hits == {i \in from..Len(s) : IsQuote(At(s, i))}
    IN  IF hits = {} THEN 0 ELSE CHOOSE i \in hits : \A j \in hits : i <= j

\* The first quoted term of the prompt after the word "search", "" if none.
QuotedTermAfterSearch(promptLower) ==
    LET i  == IndexOf(promptLower, "search")
        q1 == FirstQuoteFrom(prompt, i + Len("search"))
        q2 == IndexOfFrom(prompt, At(prompt, q1), q1 + 1)
    IN  IF i = 0 \/ q1 = 0 \/ q2 = 0 THEN "" ELSE SubSeq(prompt, q1 + 1, q2 - 1)

\* C4: when the obsidian skill is selected with search intent and the prompt
\* has a quoted term after the word "search", other words in between or not,
\* the command is obsidian-cli search "<term>" with exactly that term, and
\* skillName is "obsidian".
C4_QuotedTermSpliced ==
    LET pl == ToLowerCase(prompt)
        term == QuotedTermAfterSearch(pl)
    IN  (pc = "done" /\ SearchIntent(pl) /\ term # "") =>
            /\ response[1].fields.skillName = "obsidian"
            /\ response[1].fields.command = "obsidian-cli search \"" \o term \o "\""

SearchPrefix == "obsidian-cli search \""

\* The term between the quotes of a search command.
SplicedTerm(command) == SubSeq(command, Len(SearchPrefix) + 1, Len(command) - 1)

\* C5: the prompt is lower-cased for matching only: a term extracted from
\* the prompt and spliced into the search command is in the command as it is
\* written in the original prompt, upper-case letters included.
C5_TermKeepsCasing ==
    LET pl == ToLowerCase(prompt)
    IN  (pc = "done" /\ SearchIntent(pl) /\ SearchQueryFrom(pl, 1) # "") =>
            /\ StartsWith(response[1].fields.command, SearchPrefix)
            /\ Includes(prompt, SplicedTerm(response[1].fields.command))

\* C6 as claimed: with no skill selected, the first skill's name and first
\* command, or the sentinel name and the sentinel command when the catalog
\* is empty or the first skill lists no command.
C6_DefaultAsClaimed ==
    (pc = "done" /\ ~ObsidianSelected(ToLowerCase(prompt))) =>
        /\ response[1].fields.reasoning = "Default fallback: no specific skill matched"
        /\ IF skills = <<>> \/ skills[1].commands = <<>>
           THEN /\ response[1].fields.skillName = "unknown"
                /\ response[1].fields.command = "echo \"No command found\""
           ELSE /\ response[1].fields.skillName = skills[1].metadata["name"]
                /\ response[1].fields.command = skills[1].commands[1]

\* C6 (amended): with no skill selected, skillName is the first catalog
\* skill's name, or "unknown" when the catalog is empty or that name is
\* empty; command is that skill's first listed command, or the no-op
\* command when the catalog is empty or the skill lists no command; the two
\* fall back independently; the rationale says no specific skill matched;
\* an empty catalog gives the sentinel name and the no-op command.
C6_DefaultResolution ==
    (pc = "done" /\ ~ObsidianSelected(ToLowerCase(prompt))) =>
        /\ response[1].fields.reasoning = "Default fallback: no specific skill matched"
        /\ response[1].fields.skillName
              = IF skills # <<>> /\ skills[1].metadata["name"] # ""
                THEN skills[1].metadata["name"] ELSE "unknown"
        /\ response[1].fields.command
              = IF skills # <<>> /\ skills[1].commands # <<>>
                THEN skills[1].commands[1] ELSE "echo \"No command found\""
        /\ skills = <<>> =>
              /\ response[1].fields.skillName = "unknown"
              /\ response[1].fields.command = "echo \"No command found\""

C6_Witness ==
    /\ pc = "done"
    /\ ~ObsidianSelected(ToLowerCase(prompt))
    /\ Has(ToLowerCase(prompt), "note")
    /\ skills # <<>>
    /\ skills[1].commands = <<>>
    /\ response[1].fields.skillName = "git"
    /\ response[1].fields.command = "echo \"No command found\""

Ticks(body) == {i \in 1..Len(body) : At(body, i) = BT}

NthTick(body, n) ==
    CHOOSE i \in Ticks(body) : Cardinality({j \in Ticks(body) : j <= i}) = n

\* The text between the (2k-1)-th and the 2k-th back-quote, trimmed.
TrimmedSpan(body, k) ==
    Trim(SubSeq(body, NthTick(body, 2 * k - 1) + 1, NthTick(body, 2 * k) - 1))

Recognized(span) == StartsWith(span, "obsidian-cli") \/ StartsWith(span, "obsidian://")

\* The spans of a body without two back-quotes in a row that are kept.
KeptSpans(body) ==
    {k \in 1..(Cardinality(Ticks(body)) \div 2) : Recognized(TrimmedSpan(body, k))}

\* C7: every command of every Skill of the catalog starts with obsidian-cli
\* or obsidian://, and is a span of the body; where the back-quotes of the
\* body pair up, the commands are the trimmed spans with a recognized
\* prefix, each once per occurrence, in body order.
C7_AllowList ==
    \A i \in DOMAIN skills :
        LET body == skills[i].content
            cmds == skills[i].commands
        IN  /\ \A k \in DOMAIN cmds : Recognized(cmds[k]) /\ Includes(body, cmds[k])
            /\ (\A t \in Ticks(body) : t + 1 \notin Ticks(body)) =>
                  /\ Len(cmds) = Cardinality(KeptSpans(body))
                  /\ \A k \in KeptSpans(body) :
                        cmds[Cardinality({j \in KeptSpans(body) : j <= k})]
                            = TrimmedSpan(body, k)

C7_Witness ==
    /\ pc = "loaded"
    /\ \E i \in DOMAIN skills :
          /\ Len(skills[i].commands) = 2
          /\ skills[i].commands[1] = skills[i].commands[2]
          /\ Includes(skills[i].content, "echo hi")
          /\ \A t \in Ticks(skills[i].content) : t + 1 \notin Ticks(skills[i].content)

\* The paths of the documents of category c on that read and parse, in
\* listing order; a root entry that is no directory is no category.
RECURSIVE LoadablePathsFrom(_)
LoadablePathsFrom(c) ==
    IF c > Len(fs.entries) THEN <<>>
    ELSE LET good == IF fs.entries[c].kind = "dir"
                     THEN SelectSeq(fs.entries[c].entries,
                                    LAMBDA f : IsSkillFile(f) /\ Loads(f))
                     ELSE <<>>
         IN  [j \in DOMAIN good |->
                 Join(Join(SKILLS_DIR, fs.entries[c].name), good[j].name)]
                 \o LoadablePathsFrom(c + 1)

\* C8: no error reaches the caller of load whatever the root contains, and
\* load returns exactly the Skills of the documents that read and parse, in
\* category-then-file order (none for a missing root).
C8_LoadNeverRaises ==
    /\ raised = ""
    /\ pc # "failed"
    /\ pc = "loaded" =>
          [i \in DOMAIN skills |-> skills[i].path]
              = IF fs.exists THEN LoadablePathsFrom(1) ELSE <<>>

\* C9: with the obsidian skill selected, create/new gives the create
\* command whatever else the prompt holds; otherwise search gives a search
\* command; otherwise default/path gives the print-default command;
\* otherwise the generic search command.
C9_IntentPriority ==
    LET pl == ToLowerCase(prompt)
        command == response[1].fields.command
    IN  (pc = "done" /\ ObsidianSelected(pl)) =>
            IF Has(pl, "create") \/ Has(pl, "new")
            THEN command = "obsidian-cli create \"Folder/New note\" --open"
            ELSE IF Has(pl, "search")
            THEN StartsWith(command, "obsidian-cli search \"")
            ELSE IF Has(pl, "default") \/ Has(pl, "path")
            THEN command = "obsidian-cli print-default --path-only"
            ELSE command = "obsidian-cli search \"query\""

C9_Witness ==
    /\ pc = "done"
    /\ ObsidianSelected(ToLowerCase(prompt))
    /\ Has(ToLowerCase(prompt), "create")
    /\ Has(ToLowerCase(prompt), "search")
    /\ response[1].fields.command = "obsidian-cli create \"Folder/New note\" --open"

MetadataFields == {"name", "description", "homepage", "metadata"}

\* The key of a front-block line, "" when the line has none.
KeyOf(line) ==
    IF IndexOf(line, ":") > 1 THEN Trim(SubSeq(line, 1, IndexOf(line, ":") - 1)) ELSE ""

HasRecognizedKey(line) == KeyOf(line) \in MetadataFields

FrontLinesOf(doc) ==
    SplitLines(SubSeq(doc, Len(Marker) + 1, FrontmatterEnd(doc) - 1))

\* C10: the record parse returns has exactly the fields name, description,
\* homepage and metadata, whatever other keys the front block has, and the
\* lines with other keys change none of the four.
C10_UnknownKeysIgnored ==
    pc = "done" =>
        /\ DOMAIN parsed[1].metadata = MetadataFields
        /\ \A k \in MetadataFields :
              parsed[1].metadata[k]
                  = ApplyLines(EmptyMetadata,
                               SelectSeq(FrontLinesOf(content), HasRecognizedKey))[k]

====
